---- MODULE Spec2Model ----
(***************************************************************************)
(* State machine of the yetty python plugin                                *)
(* (src/src/yetty/plugins/python/python.cpp).                              *)
(*                                                                         *)
(* The plugin runs on the host's single render/update thread, so every     *)
(* public entry point (PythonPlugin::create/init/dispose/execute/          *)
(* createLayer, PythonLayer::init/dispose/render/onKey/onChar) is one      *)
(* atomic action.  The order of the calls an entry point makes into the    *)
(* interpreter, the GPU and the handle bridge is kept in `trace`, the      *)
(* event list of the most recent call; `last` names that call and what it  *)
(* returned.                                                               *)
(*                                                                         *)
(* Results of calls into code outside python.cpp (CPython, WebGPU, the     *)
(* file system, the host's Plugin base class) are inputs of the actions,   *)
(* drawn with \E from the outcomes the code distinguishes.                 *)
(***************************************************************************)
EXTENDS Integers, Sequences, FiniteSets, TLC

(***************************************************************************)
(* Bounds of the model.                                                    *)
(***************************************************************************)
NumPlugins == 2     \* PythonPlugin instances the host may create
NumLayers == 2      \* PythonLayer objects alive at the same time
MaxBoots == 2       \* executions of Py_InitializeFromConfig followed
MaxInput == 2       \* characters typed into _input_buffer
MaxOutput == 8      \* length of _output up to which Enter is followed

Plugins == 1..NumPlugins
Layers == 1..NumLayers

VARIABLES
    py,        \* the process-wide CPython runtime
    bridge,    \* the yetty_wgpu handle table and render texture view
    plugin,    \* PythonPlugin instances
    layer,     \* PythonLayer instances
    logged,    \* the function-local static of PythonLayer::render
    trace,     \* events of the most recent call, in program order
    last       \* the most recent call and its result

vars == <<py, bridge, plugin, layer, logged, trace, last>>

(***************************************************************************)
(* Events and results.                                                     *)
(***************************************************************************)
\* One call made by an entry point: what, for which layer (0: none), and
\* the piece of state the call saw (a sys.stdout binding, "running", ...).
Ev(name, l, st) == [ev |-> name, l |-> l, st |-> st]

\* yetty::Result: Ok(value) and Err(message).
Ok(v) == [ok |-> TRUE, val |-> v]
Err(m) == [ok |-> FALSE, val |-> m]
\* Err(message, cause): the failed result `cause` chained under `message`.
ErrChain(m, cause) == [ok |-> FALSE, val |-> m \o ": " \o cause.val]

Names(t) == [i \in 1..Len(t) |-> t[i].ev]
Has(t, name) == \E i \in 1..Len(t) : t[i].ev = name
HasFor(t, name, l) == \E i \in 1..Len(t) : t[i].ev = name /\ t[i].l = l
Count(t, name, l) == Cardinality({i \in 1..Len(t) : t[i].ev = name /\ t[i].l = l})
\* every `a` of layer l comes before every `b` of layer l
Before(t, a, b, l) ==
    \A i, j \in 1..Len(t) :
        (t[i].ev = a /\ t[i].l = l /\ t[j].ev = b /\ t[j].l = l) => i < j

(***************************************************************************)
(* The embedded interpreter (CPython), as far as python.cpp observes it.   *)
(***************************************************************************)
\* Code strings the model feeds to the interpreter, and the files on disk.
CodePrint == "print(42)"
CodePartial == "print(1);hi"
CodeRebind == "sys.stdout=U"
CodeOne == "1"
CodeName == "i"
ScriptOk == "ok.py"
ScriptBad == "bad.py"
ScriptGone == "gone.py"

\* What PyRun_String does with a code string: the statements it runs.
\* A string that is no known program raises (NameError / SyntaxError).
Program(code) ==
    CASE code = "" -> <<>>
      [] code = CodeOne -> <<>>
      [] code = CodePrint -> <<[op |-> "print", text |-> "42\n"]>>
      [] code = CodePartial -> <<[op |-> "print", text |-> "1\n"], [op |-> "raise"]>>
      [] code = CodeRebind -> <<[op |-> "rebind"], [op |-> "print", text |-> "lost\n"]>>
      [] OTHER -> <<[op |-> "raise"]>>

\* Running statements: print writes to whatever sys.stdout is bound to (the
\* text lands in the StringIO only while it is the binding), user code may
\* rebind sys.stdout itself, an exception stops the run.
RECURSIVE PyRun(_, _)
PyRun(stmts, st) ==
    IF stmts = <<>> THEN st
    ELSE LET s == Head(stmts) IN
         CASE s.op = "print" ->
                PyRun(Tail(stmts),
                      [st EXCEPT !.sink = IF st.stdout = "sink" THEN @ \o s.text ELSE @])
           [] s.op = "rebind" ->
                PyRun(Tail(stmts), [st EXCEPT !.stdout = "user"])
           [] OTHER -> [st EXCEPT !.ok = FALSE]

ImportOutcomes == {"ok", "no_sys", "no_io"}

\* Redirect stdout/stderr to the StringIO (lines 233-234).
ExecRedirect(p0) == [p0 EXCEPT !.stdout = "sink", !.stderr = "sink"]

\* Restore stdout/stderr from the saved objects (lines 251-252).
ExecRestore_StdoutOnly(pa, old) == [pa EXCEPT !.stdout = old.stdout]

ExecRestore(pa, old) == [pa EXCEPT !.stdout = old.stdout, !.stderr = old.stderr]

\* PythonPlugin::execute.  pl: the plugin, p0: the runtime before the call,
\* imp: how the imports of sys and io go.  Gives the result, the runtime
\* after the call and the events.
execute(pl, p0, code, imp) ==
    IF ~pl.py_initialized THEN
        [res |-> Err("Python not initialized"), py |-> p0, ev |-> <<>>]
    ELSE IF imp = "no_sys" THEN
        [res |-> Err("Failed to import sys module"), py |-> p0, ev |-> <<>>]
    ELSE IF imp = "no_io" THEN
        [res |-> Err("Failed to import io module"), py |-> p0, ev |-> <<>>]
    ELSE
        LET old == [stdout |-> p0.stdout, stderr |-> p0.stderr]
            pR == ExecRedirect(p0)
            r == PyRun(Program(code),
                       [stdout |-> pR.stdout, stderr |-> pR.stderr,
                        sink |-> "", ok |-> TRUE])
            pa == [pR EXCEPT !.stdout = r.stdout, !.stderr = r.stderr]
            output == r.sink
            p1 == ExecRestore(pa, old)
            evs == << Ev("redirect", 0, pR.stdout),
                      Ev("PyRun_String", 0, pR.stdout),
                      Ev("getvalue", 0, pa.stdout),
                      Ev("restore", 0, p1.stdout) >>
        IN  IF ~r.ok THEN
                [res |-> Err("Python execution error: " \o output), py |-> p1,
                 ev |-> evs \o <<Ev("PyErr_Print", 0, p1.stderr)>>]
            ELSE
                [res |-> Ok(output), py |-> p1, ev |-> evs]

\* The files std::ifstream can open, and their content.
Readable(path) == path \in {ScriptOk, ScriptBad}
FileContent(path) == IF path = ScriptOk THEN CodePrint ELSE CodePartial

\* PythonPlugin::runFile.  reopen: whether the file opens (again).
runFile(pl, p0, path, reopen, imp) ==
    IF ~reopen THEN
        [res |-> Err("Failed to open Python file: " \o path), py |-> p0, ev |-> <<>>]
    ELSE
        LET x == execute(pl, p0, FileContent(path), imp) IN
        IF ~x.res.ok THEN
            [res |-> ErrChain("Failed to execute Python file", x.res),
             py |-> x.py, ev |-> x.ev]
        ELSE [res |-> Ok(""), py |-> x.py, ev |-> x.ev]

(***************************************************************************)
(* The GPU handle bridge (yetty_wgpu, declared in yetty_wgpu.h).           *)
(***************************************************************************)
BridgeClean ==
    [instance |-> "null", adapter |-> "null", device |-> "null", queue |-> "null",
     view |-> 0]

\* yetty_wgpu_set_handles: replaces the table.
yetty_wgpu_set_handles(b, instance, adapter, device, queue) ==
    [b EXCEPT !.instance = instance, !.adapter = adapter,
              !.device = device, !.queue = queue]

\* yetty_wgpu_cleanup: releases texture and view, clears the table.
yetty_wgpu_cleanup(b) == BridgeClean

\* yetty_wgpu_get_render_texture_view: the current view, 0 for none.
yetty_wgpu_get_render_texture_view(b) == b.view

\* The render texture views the script side may create (identities).
Views == {1, 2}

(***************************************************************************)
(* PythonLayer: construction and dispose.                                  *)
(***************************************************************************)
\* A slot holding no layer object.
NoLayer ==
    [owner |-> 0, payload |-> "", script_path |-> "", output |-> "",
     input_buffer |-> "", initialized |-> FALSE, visible |-> TRUE, failed |-> FALSE,
     wgpu_handles_set |-> FALSE, pygfx_module |-> FALSE, render_frame_func |-> FALSE,
     pygfx_initialized |-> FALSE, blit_initialized |-> FALSE,
     blit_sampler |-> FALSE, blit_pipeline |-> FALSE, blit_bind_group |-> 0]

\* PythonLayer::PythonLayer(plugin): the members' initial values.
NewLayer(p) == [NoLayer EXCEPT !.owner = p]

If(c, evs) == IF c THEN evs ELSE <<>>

\* Mutants of DisposeBlit: the sampler handle is not nulled after its
\* release; the releases run in the opposite order.
DisposeBlit_KeepSampler(lay, l) ==
    [lay |-> [lay EXCEPT !.blit_bind_group = 0, !.blit_pipeline = FALSE,
                         !.blit_initialized = FALSE],
     ev |-> If(lay.blit_bind_group /= 0, <<Ev("wgpuBindGroupRelease", l, "")>>)
            \o If(lay.blit_pipeline, <<Ev("wgpuRenderPipelineRelease", l, "")>>)
            \o If(lay.blit_sampler, <<Ev("wgpuSamplerRelease", l, "")>>)]

DisposeBlit_SamplerFirst(lay, l) ==
    [lay |-> [lay EXCEPT !.blit_bind_group = 0, !.blit_pipeline = FALSE,
                         !.blit_sampler = FALSE, !.blit_initialized = FALSE],
     ev |-> If(lay.blit_sampler, <<Ev("wgpuSamplerRelease", l, "")>>)
            \o If(lay.blit_pipeline, <<Ev("wgpuRenderPipelineRelease", l, "")>>)
            \o If(lay.blit_bind_group /= 0, <<Ev("wgpuBindGroupRelease", l, "")>>)]

\* PythonLayer::dispose, first half: the blit resources.
DisposeBlit(lay, l) ==
    [lay |-> [lay EXCEPT !.blit_bind_group = 0, !.blit_pipeline = FALSE,
                         !.blit_sampler = FALSE, !.blit_initialized = FALSE],
     ev |-> If(lay.blit_bind_group /= 0, <<Ev("wgpuBindGroupRelease", l, "")>>)
            \o If(lay.blit_pipeline, <<Ev("wgpuRenderPipelineRelease", l, "")>>)
            \o If(lay.blit_sampler, <<Ev("wgpuSamplerRelease", l, "")>>)]

\* Mutant of DisposePy: the references are released through the interpreter
\* whether or not the plugin is initialized.
DisposePy_Always(lay, l, alive, hasCleanup) ==
    [lay |-> [lay EXCEPT !.render_frame_func = FALSE, !.pygfx_module = FALSE,
                         !.pygfx_initialized = FALSE, !.wgpu_handles_set = FALSE,
                         !.initialized = FALSE],
     ev |-> If(lay.render_frame_func, <<Ev("Py_DECREF func", l, "")>>)
            \o If(lay.pygfx_module,
                  <<Ev("GetAttr cleanup", l, "")>>
                  \o If(hasCleanup, <<Ev("call cleanup", l, "")>>)
                  \o <<Ev("Py_DECREF module", l, "")>>)]

\* Mutant of DisposePy: dispose also clears the failed flag.
DisposePy_Revive(lay, l, alive, hasCleanup) ==
    [lay |-> [lay EXCEPT !.render_frame_func = FALSE, !.pygfx_module = FALSE,
                         !.pygfx_initialized = FALSE, !.wgpu_handles_set = FALSE,
                         !.initialized = FALSE, !.failed = FALSE],
     ev |-> IF alive THEN
                If(lay.render_frame_func, <<Ev("Py_DECREF func", l, "")>>)
                \o If(lay.pygfx_module,
                      <<Ev("GetAttr cleanup", l, "")>>
                      \o If(hasCleanup, <<Ev("call cleanup", l, "")>>)
                      \o <<Ev("Py_DECREF module", l, "")>>)
            ELSE
                <<Ev("null _render_frame_func", l,
                     IF lay.render_frame_func THEN "held" ELSE ""),
                  Ev("null _pygfx_module", l, IF lay.pygfx_module THEN "held" ELSE "")>>]

\* PythonLayer::dispose, second half: the cached interpreter references.
\* alive: _plugin && _plugin->isInitialized(); hasCleanup: whether the module
\* has a cleanup attribute.
DisposePy(lay, l, alive, hasCleanup) ==
    [lay |-> [lay EXCEPT !.render_frame_func = FALSE, !.pygfx_module = FALSE,
                         !.pygfx_initialized = FALSE, !.wgpu_handles_set = FALSE,
                         !.initialized = FALSE],
     ev |-> IF alive THEN
                If(lay.render_frame_func, <<Ev("Py_DECREF func", l, "")>>)
                \o If(lay.pygfx_module,
                      <<Ev("GetAttr cleanup", l, "")>>
                      \o If(hasCleanup, <<Ev("call cleanup", l, "")>>)
                      \o <<Ev("Py_DECREF module", l, "")>>)
            ELSE
                <<Ev("null _render_frame_func", l,
                     IF lay.render_frame_func THEN "held" ELSE ""),
                  Ev("null _pygfx_module", l, IF lay.pygfx_module THEN "held" ELSE "")>>]

\* PythonLayer::dispose.
layerDispose(lay, l, alive, hasCleanup) ==
    LET a == DisposeBlit(lay, l)
        b == DisposePy(a.lay, l, alive, hasCleanup)
    IN  [lay |-> b.lay, ev |-> a.ev \o b.ev]

(***************************************************************************)
(* PythonPlugin.                                                           *)
(***************************************************************************)
\* A slot holding no plugin object, and a freshly constructed plugin.
NoPlugin ==
    [exists |-> FALSE, initialized |-> FALSE, py_initialized |-> FALSE,
     main_module |-> FALSE, main_dict |-> FALSE]

NewPlugin == [NoPlugin EXCEPT !.exists = TRUE]

\* Plugin::isInitialized().
isInitialized(pl) == pl.initialized

InitOutcomes == {"ok", "reg_fail", "name_fail", "boot_fail", "main_fail", "dict_fail"}

RunState(p0) == IF p0.running THEN "running" ELSE "stopped"

\* PythonPlugin::initPython.  out: how the calls into CPython go.
initPython(pl, p0, out) ==
    IF pl.py_initialized THEN [res |-> Ok(""), pl |-> pl, py |-> p0, ev |-> <<>>]
    ELSE
    LET reg == <<Ev("setenv", 0, ""), Ev("PyImport_AppendInittab", 0, RunState(p0))>>
        boot == <<Ev("Py_InitializeFromConfig", 0, RunState(p0))>>
        pB == [p0 EXCEPT !.boots = @ + 1]
        pUp == [pB EXCEPT !.running = TRUE]
        pDown == [pUp EXCEPT !.running = FALSE, !.finalizes = @ + 1]
        fin == <<Ev("Py_Finalize", 0, "running")>>
    IN
    CASE out = "reg_fail" ->
            [res |-> Err("Failed to register yetty_wgpu module"),
             pl |-> pl, py |-> p0, ev |-> reg]
      [] out = "name_fail" ->
            [res |-> Err("Failed to set Python program name"),
             pl |-> pl, py |-> p0, ev |-> reg]
      [] out = "boot_fail" ->
            [res |-> Err("Failed to initialize Python interpreter"),
             pl |-> pl, py |-> pB, ev |-> reg \o boot]
      [] out = "main_fail" ->
            [res |-> Err("Failed to get Python __main__ module"),
             pl |-> pl, py |-> pDown, ev |-> reg \o boot \o fin]
      [] out = "dict_fail" ->
            [res |-> Err("Failed to get Python __main__ dict"),
             pl |-> [pl EXCEPT !.main_module = TRUE],
             py |-> pDown, ev |-> reg \o boot \o fin]
      [] OTHER ->
            [res |-> Ok(""),
             pl |-> [pl EXCEPT !.main_module = TRUE, !.main_dict = TRUE,
                               !.py_initialized = TRUE],
             py |-> pUp,
             ev |-> reg \o boot \o <<Ev("PyRun_SimpleString sys.path", 0, "")>>]

\* Mutant of pluginInit: a failure of setupPythonPackages fails init.
pluginInit_Hard(pl, p0, pkgs, out) ==
    LET w == If(~pkgs, <<Ev("warn packages", 0, "")>>)
        x == initPython(pl, p0, out)
    IN  IF ~pkgs THEN [res |-> Err("Failed to setup Python packages"),
                       pl |-> pl, py |-> p0, ev |-> w]
        ELSE IF ~x.res.ok THEN [x EXCEPT !.ev = w \o @]
        ELSE [res |-> Ok(""), pl |-> [x.pl EXCEPT !.initialized = TRUE],
              py |-> x.py, ev |-> w \o x.ev]

\* PythonPlugin::init.  pkgs: whether setupPythonPackages succeeded.
pluginInit(pl, p0, pkgs, out) ==
    LET w == If(~pkgs, <<Ev("warn packages", 0, "")>>)
        x == initPython(pl, p0, out)
    IN  IF ~x.res.ok THEN [x EXCEPT !.ev = w \o @]
        ELSE [res |-> Ok(""), pl |-> [x.pl EXCEPT !.initialized = TRUE],
              py |-> x.py, ev |-> w \o x.ev]

LayersOf(p) == {l \in Layers : layer[l].owner = p}

\* Plugin::dispose of the host's base class, as PythonPlugin::dispose relies
\* on it ("Dispose layers first"): it disposes the layers in `done`, in
\* order, while the plugin still is as `pl`.
RECURSIVE baseDispose(_, _, _, _, _)
baseDispose(ls, pl, done, hasCleanup, l) ==
    IF l > NumLayers THEN [layer |-> ls, ev |-> <<>>]
    ELSE IF l \in done THEN
        LET d == layerDispose(ls[l], l, isInitialized(pl), hasCleanup)
            rest == baseDispose([ls EXCEPT ![l] = d.lay], pl, done, hasCleanup, l + 1)
        IN  [layer |-> rest.layer, ev |-> d.ev \o rest.ev]
    ELSE baseDispose(ls, pl, done, hasCleanup, l + 1)

\* Mutant of DisposeTail: the flags are cleared before the bridge is.
DisposeTail_FlagsFirst(pl, b) ==
    [pl |-> [pl EXCEPT !.main_module = IF pl.py_initialized THEN FALSE ELSE @,
                       !.main_dict = IF pl.py_initialized THEN FALSE ELSE @,
                       !.py_initialized = FALSE,
                       !.initialized = FALSE],
     bridge |-> yetty_wgpu_cleanup(b),
     ev |-> If(pl.py_initialized, <<Ev("clear _py_initialized", 0, "")>>)
            \o <<Ev("clear _initialized", 0, "")>>
            \o <<Ev("yetty_wgpu_cleanup", 0, "")>>]

\* PythonPlugin::dispose, after the base class returned success.
DisposeTail(pl, b) ==
    [pl |-> [pl EXCEPT !.main_module = IF pl.py_initialized THEN FALSE ELSE @,
                       !.main_dict = IF pl.py_initialized THEN FALSE ELSE @,
                       !.py_initialized = FALSE,
                       !.initialized = FALSE],
     bridge |-> yetty_wgpu_cleanup(b),
     ev |-> <<Ev("yetty_wgpu_cleanup", 0, "")>>
            \o If(pl.py_initialized, <<Ev("clear _py_initialized", 0, "")>>)
            \o <<Ev("clear _initialized", 0, "")>>]

\* PythonPlugin::dispose.  baseOk: the result of Plugin::dispose.
pluginDispose(ls, pl, b, baseOk, done, hasCleanup) ==
    LET base == baseDispose(ls, pl, done, hasCleanup, 1)
        bev == <<Ev("Plugin::dispose", 0, IF isInitialized(pl) THEN "initialized" ELSE "")>>
    IN  IF ~baseOk THEN
            [res |-> Err("Failed to dispose PythonPlugin base"),
             layer |-> base.layer, pl |-> pl, bridge |-> b, ev |-> bev \o base.ev]
        ELSE
            LET t == DisposeTail(pl, b) IN
            [res |-> Ok(""), layer |-> base.layer, pl |-> t.pl, bridge |-> t.bridge,
             ev |-> bev \o base.ev \o t.ev]

(***************************************************************************)
(* PythonLayer: init, render, input.                                       *)
(***************************************************************************)
\* Mutants of layerInit: a payload that fails is reported as a failure of init
\* and marks the layer failed; the new text is appended to the old output.
layerInit_Strict(lay, pl, p0, payload, reopen, imp) ==
    LET l0 == [lay EXCEPT !.payload = payload] IN
    IF payload = "" THEN
        [res |-> Ok(""), lay |-> [l0 EXCEPT !.initialized = TRUE], py |-> p0,
         ev |-> <<>>]
    ELSE
        LET x == IF Readable(payload) THEN runFile(pl, p0, payload, reopen, imp)
                 ELSE execute(pl, p0, payload, imp)
        IN  IF ~x.res.ok THEN
                [res |-> Err(x.res.val), lay |-> [l0 EXCEPT !.failed = TRUE],
                 py |-> x.py, ev |-> x.ev]
            ELSE
                [res |-> Ok(""),
                 lay |-> [l0 EXCEPT !.output = IF Readable(payload)
                                               THEN "Script executed: " \o payload
                                               ELSE x.res.val,
                                    !.initialized = TRUE],
                 py |-> x.py, ev |-> x.ev]

layerInit_Append(lay, pl, p0, payload, reopen, imp) ==
    LET l0 == [lay EXCEPT !.payload = payload] IN
    IF payload = "" THEN
        [res |-> Ok(""), lay |-> [l0 EXCEPT !.initialized = TRUE], py |-> p0,
         ev |-> <<>>]
    ELSE IF Readable(payload) THEN
        LET x == runFile(pl, p0, payload, reopen, imp) IN
        [res |-> Ok(""),
         lay |-> [l0 EXCEPT !.script_path = payload,
                            !.output = IF ~x.res.ok THEN @ \o "Error: " \o x.res.val
                                       ELSE @ \o "Script executed: " \o payload,
                            !.initialized = TRUE],
         py |-> x.py, ev |-> x.ev]
    ELSE
        LET x == execute(pl, p0, payload, imp) IN
        [res |-> Ok(""),
         lay |-> [l0 EXCEPT !.output = IF x.res.ok THEN @ \o x.res.val
                                       ELSE @ \o "Error: " \o x.res.val,
                            !.initialized = TRUE],
         py |-> x.py, ev |-> x.ev]

\* PythonLayer::init.  reopen: whether runFile can open the file that the
\* probe std::ifstream test(payload) found good.
layerInit(lay, pl, p0, payload, reopen, imp) ==
    LET l0 == [lay EXCEPT !.payload = payload] IN
    IF payload = "" THEN
        [res |-> Ok(""), lay |-> [l0 EXCEPT !.initialized = TRUE], py |-> p0,
         ev |-> <<>>]
    ELSE IF Readable(payload) THEN
        LET x == runFile(pl, p0, payload, reopen, imp) IN
        [res |-> Ok(""),
         lay |-> [l0 EXCEPT !.script_path = payload,
                            !.output = IF ~x.res.ok THEN "Error: " \o x.res.val
                                       ELSE "Script executed: " \o payload,
                            !.initialized = TRUE],
         py |-> x.py, ev |-> x.ev]
    ELSE
        LET x == execute(pl, p0, payload, imp) IN
        [res |-> Ok(""),
         lay |-> [l0 EXCEPT !.output = IF x.res.ok THEN x.res.val
                                       ELSE "Error: " \o x.res.val,
                            !.initialized = TRUE],
         py |-> x.py, ev |-> x.ev]

\* The WebGPUContext handed to render.
CtxDevice == "device"
CtxQueue == "queue"

\* Mutant of RenderGate: the visibility test is missing.
RenderGate_NoHidden(lay) == IF lay.failed THEN "failed" ELSE "go"

\* PythonLayer::render, the two early returns: "failed", "hidden" or "go".
RenderGate(lay) ==
    IF lay.failed THEN "failed"
    ELSE IF ~lay.visible THEN "hidden"
    ELSE "go"

\* Mutant of RenderHandles: the handles are bound on every frame.
RenderHandles_EveryFrame(lay, l, b) ==
    [lay |-> [lay EXCEPT !.wgpu_handles_set = TRUE],
     bridge |-> yetty_wgpu_set_handles(b, "null", "null", CtxDevice, CtxQueue),
     ev |-> <<Ev("yetty_wgpu_set_handles", l, "")>>]

\* PythonLayer::render, binding the handles on the first frame.
RenderHandles(lay, l, b) ==
    IF ~lay.wgpu_handles_set THEN
        [lay |-> [lay EXCEPT !.wgpu_handles_set = TRUE],
         bridge |-> yetty_wgpu_set_handles(b, "null", "null", CtxDevice, CtxQueue),
         ev |-> <<Ev("yetty_wgpu_set_handles", l, "")>>]
    ELSE [lay |-> lay, bridge |-> b, ev |-> <<>>]

ResolveOutcomes == {"ok", "no_module", "no_attr"}

\* Mutant of RenderResolve: the test is on the cached module, so a module
\* without render_frame is not looked at again.
RenderResolve_Once(lay, l, imp) ==
    IF ~lay.render_frame_func /\ ~lay.pygfx_module THEN
        LET mod == imp /= "no_module"
            fn == mod /\ imp = "ok"
        IN  [lay |-> [lay EXCEPT !.pygfx_module = mod,
                                 !.render_frame_func = IF mod THEN fn ELSE @,
                                 !.pygfx_initialized = IF fn THEN TRUE ELSE @],
             ev |-> <<Ev("PyImport_ImportModule", l, "")>>
                    \o If(mod, <<Ev("GetAttr render_frame", l, "")>>)]
    ELSE [lay |-> lay, ev |-> <<>>]

\* PythonLayer::render, caching yetty_pygfx.render_frame.
RenderResolve(lay, l, imp) ==
    IF ~lay.render_frame_func THEN
        LET mod == imp /= "no_module"
            fn == mod /\ imp = "ok"
        IN  [lay |-> [lay EXCEPT !.pygfx_module = mod,
                                 !.render_frame_func = IF mod THEN fn ELSE @,
                                 !.pygfx_initialized = IF fn THEN TRUE ELSE @],
             ev |-> <<Ev("PyImport_ImportModule", l, "")>>
                    \o If(mod, <<Ev("GetAttr render_frame", l, "")>>)]
    ELSE [lay |-> lay, ev |-> <<>>]

FrameOutcomes == {"raise", "falsy", "truthy"}

\* PythonLayer::renderPygfx.  frame: what render_frame() does (recorded with
\* the call); tex: the view of the render texture the script creates during
\* the call (0: none).
renderPygfx(lay, l, b, frame, tex) ==
    IF ~lay.pygfx_initialized \/ ~lay.render_frame_func THEN
        [ok |-> FALSE, bridge |-> b, ev |-> <<>>]
    ELSE
        [ok |-> frame = "truthy",
         bridge |-> IF tex = 0 THEN b ELSE [b EXCEPT !.view = tex],
         ev |-> <<Ev("call render_frame", l, frame)>>
                \o If(frame = "raise", <<Ev("PyErr_Print", l, "")>>)]

BlitOutcomes ==
    {"ok", "sampler_fail", "shader_fail", "pipeline_fail", "bindgroup_fail",
     "encoder_fail", "surface_fail", "pass_fail", "finish_fail"}

\* PythonLayer::createBlitPipeline.  out: the first GPU call that fails.
createBlitPipeline(lay, l, out) ==
    IF lay.blit_initialized THEN [ok |-> TRUE, lay |-> lay, ev |-> <<>>]
    ELSE
    LET smp == <<Ev("wgpuDeviceCreateSampler", l, "")>>
        shd == <<Ev("wgpuDeviceCreateShaderModule", l, "")>>
        pip == <<Ev("wgpuDeviceCreateRenderPipeline", l, "")>>
    IN
    CASE out = "sampler_fail" ->
            [ok |-> FALSE, lay |-> [lay EXCEPT !.blit_sampler = FALSE], ev |-> smp]
      [] out = "shader_fail" ->
            [ok |-> FALSE, lay |-> [lay EXCEPT !.blit_sampler = TRUE],
             ev |-> smp \o shd]
      [] out = "pipeline_fail" ->
            [ok |-> FALSE,
             lay |-> [lay EXCEPT !.blit_sampler = TRUE, !.blit_pipeline = FALSE],
             ev |-> smp \o shd \o pip]
      [] OTHER ->
            [ok |-> TRUE,
             lay |-> [lay EXCEPT !.blit_sampler = TRUE, !.blit_pipeline = TRUE,
                                 !.blit_initialized = TRUE],
             ev |-> smp \o shd \o pip]

\* Mutant of blitRenderTexture: the view is not tested before it is used.
blitRenderTexture_NoViewTest(lay, l, b, out) ==
    LET texView == yetty_wgpu_get_render_texture_view(b) IN
    LET c == createBlitPipeline(lay, l, out) IN
    IF ~c.ok THEN [ok |-> FALSE, lay |-> c.lay, ev |-> c.ev]
    ELSE
    LET rel == If(c.lay.blit_bind_group /= 0, <<Ev("wgpuBindGroupRelease", l, "")>>)
        mk == <<Ev("wgpuDeviceCreateBindGroup", l, "")>>
        e0 == c.ev \o rel \o mk
        bound == [c.lay EXCEPT !.blit_bind_group = texView]
        enc == <<Ev("wgpuDeviceCreateCommandEncoder", l, "")>>
        srf == <<Ev("getCurrentTextureView", l, "")>>
        pas == <<Ev("wgpuCommandEncoderBeginRenderPass", l, "")>>
        drw == <<Ev("wgpuRenderPassEncoderDraw", l, "")>>
    IN
    CASE out = "bindgroup_fail" ->
            [ok |-> FALSE, lay |-> [c.lay EXCEPT !.blit_bind_group = 0], ev |-> e0]
      [] out = "encoder_fail" ->
            [ok |-> FALSE, lay |-> bound, ev |-> e0 \o enc]
      [] out = "surface_fail" ->
            [ok |-> FALSE, lay |-> bound, ev |-> e0 \o enc \o srf]
      [] out = "pass_fail" ->
            [ok |-> FALSE, lay |-> bound, ev |-> e0 \o enc \o srf \o pas]
      [] out = "finish_fail" ->
            [ok |-> TRUE, lay |-> bound, ev |-> e0 \o enc \o srf \o pas \o drw]
      [] OTHER ->
            [ok |-> TRUE, lay |-> bound,
             ev |-> e0 \o enc \o srf \o pas \o drw \o <<Ev("wgpuQueueSubmit", l, "")>>]

\* Mutant of blitRenderTexture: the old bind group is not released before the
\* new one is created.
blitRenderTexture_KeepOldGroup(lay, l, b, out) ==
    LET texView == yetty_wgpu_get_render_texture_view(b) IN
    IF texView = 0 THEN [ok |-> FALSE, lay |-> lay, ev |-> <<>>]
    ELSE
    LET c == createBlitPipeline(lay, l, out) IN
    IF ~c.ok THEN [ok |-> FALSE, lay |-> c.lay, ev |-> c.ev]
    ELSE
    LET rel == <<>>
        mk == <<Ev("wgpuDeviceCreateBindGroup", l, "")>>
        e0 == c.ev \o rel \o mk
        bound == [c.lay EXCEPT !.blit_bind_group = texView]
        enc == <<Ev("wgpuDeviceCreateCommandEncoder", l, "")>>
        srf == <<Ev("getCurrentTextureView", l, "")>>
        pas == <<Ev("wgpuCommandEncoderBeginRenderPass", l, "")>>
        drw == <<Ev("wgpuRenderPassEncoderDraw", l, "")>>
    IN
    CASE out = "bindgroup_fail" ->
            [ok |-> FALSE, lay |-> [c.lay EXCEPT !.blit_bind_group = 0], ev |-> e0]
      [] out = "encoder_fail" ->
            [ok |-> FALSE, lay |-> bound, ev |-> e0 \o enc]
      [] out = "surface_fail" ->
            [ok |-> FALSE, lay |-> bound, ev |-> e0 \o enc \o srf]
      [] out = "pass_fail" ->
            [ok |-> FALSE, lay |-> bound, ev |-> e0 \o enc \o srf \o pas]
      [] out = "finish_fail" ->
            [ok |-> TRUE, lay |-> bound, ev |-> e0 \o enc \o srf \o pas \o drw]
      [] OTHER ->
            [ok |-> TRUE, lay |-> bound,
             ev |-> e0 \o enc \o srf \o pas \o drw \o <<Ev("wgpuQueueSubmit", l, "")>>]

\* PythonLayer::blitRenderTexture.
blitRenderTexture(lay, l, b, out) ==
    LET texView == yetty_wgpu_get_render_texture_view(b) IN
    IF texView = 0 THEN [ok |-> FALSE, lay |-> lay, ev |-> <<>>]
    ELSE
    LET c == createBlitPipeline(lay, l, out) IN
    IF ~c.ok THEN [ok |-> FALSE, lay |-> c.lay, ev |-> c.ev]
    ELSE
    LET rel == If(c.lay.blit_bind_group /= 0, <<Ev("wgpuBindGroupRelease", l, "")>>)
        mk == <<Ev("wgpuDeviceCreateBindGroup", l, "")>>
        e0 == c.ev \o rel \o mk
        bound == [c.lay EXCEPT !.blit_bind_group = texView]
        enc == <<Ev("wgpuDeviceCreateCommandEncoder", l, "")>>
        srf == <<Ev("getCurrentTextureView", l, "")>>
        pas == <<Ev("wgpuCommandEncoderBeginRenderPass", l, "")>>
        drw == <<Ev("wgpuRenderPassEncoderDraw", l, "")>>
    IN
    CASE out = "bindgroup_fail" ->
            [ok |-> FALSE, lay |-> [c.lay EXCEPT !.blit_bind_group = 0], ev |-> e0]
      [] out = "encoder_fail" ->
            [ok |-> FALSE, lay |-> bound, ev |-> e0 \o enc]
      [] out = "surface_fail" ->
            [ok |-> FALSE, lay |-> bound, ev |-> e0 \o enc \o srf]
      [] out = "pass_fail" ->
            [ok |-> FALSE, lay |-> bound, ev |-> e0 \o enc \o srf \o pas]
      [] out = "finish_fail" ->
            [ok |-> TRUE, lay |-> bound, ev |-> e0 \o enc \o srf \o pas \o drw]
      [] OTHER ->
            [ok |-> TRUE, lay |-> bound,
             ev |-> e0 \o enc \o srf \o pas \o drw \o <<Ev("wgpuQueueSubmit", l, "")>>]

\* Mutant of render: a frame that does not succeed marks the layer failed.
render_FailOnBadFrame(lay, l, b, lg, imp, frame, tex, out) ==
    LET gate == RenderGate(lay) IN
    IF gate = "failed" THEN
        [res |-> Err("PythonLayer already failed"), lay |-> lay, bridge |-> b,
         logged |-> lg, ev |-> <<>>]
    ELSE IF gate = "hidden" THEN
        [res |-> Ok(""), lay |-> lay, bridge |-> b, logged |-> lg, ev |-> <<>>]
    ELSE
    LET h == RenderHandles(lay, l, b)
        r == RenderResolve(h.lay, l, imp)
    IN  IF r.lay.pygfx_initialized /\ r.lay.render_frame_func THEN
            LET f == renderPygfx(r.lay, l, h.bridge, frame, tex)
                t == blitRenderTexture(r.lay, l, f.bridge, out)
            IN  [res |-> Ok(""),
                 lay |-> [t.lay EXCEPT !.failed = ~(f.ok /\ t.ok)],
                 bridge |-> f.bridge,
                 logged |-> lg \/ (f.ok /\ t.ok),
                 ev |-> h.ev \o r.ev \o f.ev \o t.ev]
        ELSE
            [res |-> Ok(""), lay |-> r.lay, bridge |-> h.bridge, logged |-> lg,
             ev |-> h.ev \o r.ev]

\* PythonLayer::render.
render(lay, l, b, lg, imp, frame, tex, out) ==
    LET gate == RenderGate(lay) IN
    IF gate = "failed" THEN
        [res |-> Err("PythonLayer already failed"), lay |-> lay, bridge |-> b,
         logged |-> lg, ev |-> <<>>]
    ELSE IF gate = "hidden" THEN
        [res |-> Ok(""), lay |-> lay, bridge |-> b, logged |-> lg, ev |-> <<>>]
    ELSE
    LET h == RenderHandles(lay, l, b)
        r == RenderResolve(h.lay, l, imp)
    IN  IF r.lay.pygfx_initialized /\ r.lay.render_frame_func THEN
            LET f == renderPygfx(r.lay, l, h.bridge, frame, tex)
                t == blitRenderTexture(r.lay, l, f.bridge, out)
            IN  [res |-> Ok(""), lay |-> t.lay, bridge |-> f.bridge,
                 logged |-> lg \/ (f.ok /\ t.ok),
                 ev |-> h.ev \o r.ev \o f.ev \o t.ev]
        ELSE
            [res |-> Ok(""), lay |-> r.lay, bridge |-> h.bridge, logged |-> lg,
             ev |-> h.ev \o r.ev]

GLFW_PRESS == 1
GLFW_KEY_ENTER == 257
GLFW_KEY_BACKSPACE == 259

\* Keys and actions the host forwards (65: a letter key; 0 release, 2 repeat).
Keys == {GLFW_KEY_ENTER, GLFW_KEY_BACKSPACE, 65}
KeyActions == {0, GLFW_PRESS, 2}

\* Mutant of onKey: the action is not tested, so a release or a repeat of a
\* key acts as a press.
onKey_AnyAction(lay, pl, p0, key, action, imp) ==
    LET no == [lay |-> lay, py |-> p0, consumed |-> FALSE, ev |-> <<>>] IN
    IF key = GLFW_KEY_ENTER /\ lay.input_buffer /= "" THEN
        LET x == execute(pl, p0, lay.input_buffer, imp) IN
        [lay |-> [lay EXCEPT
                    !.output = IF x.res.ok
                               THEN @ \o ">>> " \o lay.input_buffer \o "\n" \o x.res.val
                               ELSE @ \o ">>> " \o lay.input_buffer \o "\nError: "
                                      \o x.res.val \o "\n",
                    !.input_buffer = ""],
         py |-> x.py, consumed |-> TRUE, ev |-> x.ev]
    ELSE IF key = GLFW_KEY_BACKSPACE /\ lay.input_buffer /= "" THEN
        [lay |-> [lay EXCEPT !.input_buffer = SubSeq(@, 1, Len(@) - 1)],
         py |-> p0, consumed |-> TRUE, ev |-> <<>>]
    ELSE no

\* Mutant of onKey: Enter runs the buffer and keeps it.
onKey_KeepBuffer(lay, pl, p0, key, action, imp) ==
    LET no == [lay |-> lay, py |-> p0, consumed |-> FALSE, ev |-> <<>>] IN
    IF action /= GLFW_PRESS THEN no
    ELSE IF key = GLFW_KEY_ENTER /\ lay.input_buffer /= "" THEN
        LET x == execute(pl, p0, lay.input_buffer, imp) IN
        [lay |-> [lay EXCEPT
                    !.output = IF x.res.ok
                               THEN @ \o ">>> " \o lay.input_buffer \o "\n" \o x.res.val
                               ELSE @ \o ">>> " \o lay.input_buffer \o "\nError: "
                                      \o x.res.val \o "\n"],
         py |-> x.py, consumed |-> TRUE, ev |-> x.ev]
    ELSE IF key = GLFW_KEY_BACKSPACE /\ lay.input_buffer /= "" THEN
        [lay |-> [lay EXCEPT !.input_buffer = SubSeq(@, 1, Len(@) - 1)],
         py |-> p0, consumed |-> TRUE, ev |-> <<>>]
    ELSE no

\* PythonLayer::onKey.  Gives the layer, the runtime, whether the event was
\* consumed, and the events.
onKey(lay, pl, p0, key, action, imp) ==
    LET no == [lay |-> lay, py |-> p0, consumed |-> FALSE, ev |-> <<>>] IN
    IF action /= GLFW_PRESS THEN no
    ELSE IF key = GLFW_KEY_ENTER /\ lay.input_buffer /= "" THEN
        LET x == execute(pl, p0, lay.input_buffer, imp) IN
        [lay |-> [lay EXCEPT
                    !.output = IF x.res.ok
                               THEN @ \o ">>> " \o lay.input_buffer \o "\n" \o x.res.val
                               ELSE @ \o ">>> " \o lay.input_buffer \o "\nError: "
                                      \o x.res.val \o "\n",
                    !.input_buffer = ""],
         py |-> x.py, consumed |-> TRUE, ev |-> x.ev]
    ELSE IF key = GLFW_KEY_BACKSPACE /\ lay.input_buffer /= "" THEN
        [lay |-> [lay EXCEPT !.input_buffer = SubSeq(@, 1, Len(@) - 1)],
         py |-> p0, consumed |-> TRUE, ev |-> <<>>]
    ELSE no

\* Codepoints the host forwards: tab, '1', 'i', and e-acute.
Codepoints == {9, 49, 105, 233}

\* static_cast<char>(codepoint) for the codepoints below 128.
Chr(cp) ==
    CASE cp = 9 -> "\t"
      [] cp = 49 -> "1"
      [] OTHER -> "i"

AsciiLimit == 128

\* PythonLayer::onChar.
onChar(lay, cp) ==
    IF cp < AsciiLimit THEN
        [lay |-> [lay EXCEPT !.input_buffer = @ \o Chr(cp)], consumed |-> TRUE]
    ELSE [lay |-> lay, consumed |-> FALSE]

(***************************************************************************)
(* The state machine.                                                      *)
(***************************************************************************)
Codes == {"", CodeOne, CodeName, CodePrint, CodePartial, CodeRebind}
Payloads == {"", CodePrint, CodePartial, CodeRebind, ScriptOk, ScriptBad, ScriptGone}

\* A call, what it returned (for onKey and onChar: the key pressed, the
\* codepoint), and whether it repeats the call before it (the same entry
\* point on the same object, twice in a row).
Call(op, id, ok, val) ==
    [op |-> op, id |-> id, ok |-> ok, val |-> val, repeat |-> FALSE]
Again(op, id, ok, val) ==
    [op |-> op, id |-> id, ok |-> ok, val |-> val,
     repeat |-> last.op = op /\ last.id = id]

Init ==
    /\ py = [running |-> FALSE, stdout |-> "console", stderr |-> "console",
             boots |-> 0, finalizes |-> 0]
    /\ bridge = BridgeClean
    /\ plugin = [p \in Plugins |-> NoPlugin]
    /\ layer = [l \in Layers |-> NoLayer]
    /\ logged = FALSE
    /\ trace = <<>>
    /\ last = [op |-> "none", id |-> 0, ok |-> TRUE, val |-> "", repeat |-> FALSE]

\* Whether an initPython call with this outcome reaches Py_InitializeFromConfig.
Boots(pl, out) == ~pl.py_initialized /\ out \notin {"reg_fail", "name_fail"}

\* PythonPlugin::create: construct, init, and on failure destroy the object
\* again (~PythonPlugin calls dispose).
Create(p) ==
    /\ ~plugin[p].exists
    /\ \E pkgs \in BOOLEAN, out \in InitOutcomes, baseOk \in BOOLEAN :
        /\ Boots(NewPlugin, out) => py.boots < MaxBoots
        /\ LET x == pluginInit(NewPlugin, py, pkgs, out) IN
           IF x.res.ok THEN
               /\ plugin' = [plugin EXCEPT ![p] = x.pl]
               /\ py' = x.py
               /\ trace' = x.ev
               /\ last' = Call("create", p, TRUE, "")
               /\ UNCHANGED <<bridge, layer, logged>>
           ELSE
               LET d == pluginDispose(layer, x.pl, bridge, baseOk, {}, FALSE) IN
               /\ plugin' = [plugin EXCEPT ![p] = NoPlugin]
               /\ py' = x.py
               /\ bridge' = d.bridge
               /\ trace' = x.ev \o d.ev
               /\ last' = Call("create", p, FALSE,
                               "Failed to init PythonPlugin: " \o x.res.val)
               /\ UNCHANGED <<layer, logged>>

\* PythonPlugin::init on a plugin that exists.
PluginInit(p) ==
    /\ plugin[p].exists
    /\ \E pkgs \in BOOLEAN, out \in InitOutcomes :
        /\ Boots(plugin[p], out) => py.boots < MaxBoots
        /\ LET x == pluginInit(plugin[p], py, pkgs, out) IN
           /\ plugin' = [plugin EXCEPT ![p] = x.pl]
           /\ py' = x.py
           /\ trace' = x.ev
           /\ last' = Call("plugin_init", p, x.res.ok, x.res.val)
           /\ UNCHANGED <<bridge, layer, logged>>

\* PythonPlugin::dispose.
PluginDispose(p) ==
    /\ plugin[p].exists
    /\ \E baseOk \in BOOLEAN, done \in SUBSET LayersOf(p), hasCleanup \in BOOLEAN :
        /\ baseOk => done = LayersOf(p)
        /\ LET d == pluginDispose(layer, plugin[p], bridge, baseOk, done, hasCleanup) IN
           /\ plugin' = [plugin EXCEPT ![p] = d.pl]
           /\ layer' = d.layer
           /\ bridge' = d.bridge
           /\ trace' = d.ev
           /\ last' = Call("plugin_dispose", p, d.res.ok, d.res.val)
           /\ UNCHANGED <<py, logged>>

\* PythonPlugin::execute called by the host, with a code string of CS.
Execute(p, CS) ==
    /\ plugin[p].exists
    /\ \E code \in CS, imp \in ImportOutcomes :
        LET x == execute(plugin[p], py, code, imp) IN
        /\ py' = x.py
        /\ trace' = x.ev
        /\ last' = Call("execute", p, x.res.ok, x.res.val)
        /\ UNCHANGED <<bridge, plugin, layer, logged>>

\* The outcomes init can meet with a payload: the file is reopened only for a
\* path that opened, the interpreter is entered only for a payload that is
\* not empty.
FileOutcomes(payload) == IF Readable(payload) THEN BOOLEAN ELSE {TRUE}
ExecOutcomes(payload) == IF payload = "" THEN {"ok"} ELSE ImportOutcomes

\* PythonPlugin::createLayer: a new layer object in a free slot of LS, then
\* init(payload) with a payload of PS.
CreateLayer(p, LS, PS) ==
    /\ plugin[p].exists
    /\ \E l \in LS, payload \in PS :
       \E reopen \in FileOutcomes(payload), imp \in ExecOutcomes(payload) :
        /\ layer[l].owner = 0
        /\ \A k \in LS : k < l => layer[k].owner /= 0
        /\ LET x == layerInit(NewLayer(p), plugin[p], py, payload, reopen, imp)
               d == layerDispose(x.lay, l, isInitialized(plugin[p]), FALSE)
           IN
           /\ IF x.res.ok
              THEN /\ layer' = [layer EXCEPT ![l] = x.lay]
                   /\ trace' = x.ev
                   /\ last' = Call("create_layer", l, TRUE, "")
              ELSE /\ layer' = layer
                   /\ trace' = x.ev \o d.ev
                   /\ last' = Call("create_layer", l, FALSE,
                                   "Failed to init PythonLayer: " \o x.res.val)
           /\ py' = x.py
           /\ UNCHANGED <<bridge, plugin, logged>>

\* PythonLayer::init on a layer that exists.
LayerInit(l, PS) ==
    /\ layer[l].owner /= 0
    /\ \E payload \in PS :
       \E reopen \in FileOutcomes(payload), imp \in ExecOutcomes(payload) :
        LET x == layerInit(layer[l], plugin[layer[l].owner], py, payload, reopen, imp) IN
        /\ layer' = [layer EXCEPT ![l] = x.lay]
        /\ py' = x.py
        /\ trace' = x.ev
        /\ last' = Call("layer_init", l, x.res.ok, x.res.val)
        /\ UNCHANGED <<bridge, plugin, logged>>

\* PythonLayer::dispose called by the host.
LayerDispose(l) ==
    /\ layer[l].owner /= 0
    /\ \E hasCleanup \in BOOLEAN :
        LET d == layerDispose(layer[l], l, isInitialized(plugin[layer[l].owner]),
                              hasCleanup) IN
        /\ layer' = [layer EXCEPT ![l] = d.lay]
        /\ trace' = d.ev
        /\ last' = Again("layer_dispose", l, TRUE, "")
        /\ UNCHANGED <<py, bridge, plugin, logged>>

\* PythonLayer::~PythonLayer: dispose, then the object is gone.
LayerDestroy(l) ==
    /\ layer[l].owner /= 0
    /\ \E hasCleanup \in BOOLEAN :
        LET d == layerDispose(layer[l], l, isInitialized(plugin[layer[l].owner]),
                              hasCleanup) IN
        /\ layer' = [layer EXCEPT ![l] = NoLayer]
        /\ trace' = d.ev
        /\ last' = Call("layer_destroy", l, TRUE, "")
        /\ UNCHANGED <<py, bridge, plugin, logged>>

\* PythonLayer::render called by the host for one frame, with the script's
\* frames drawn from FO and the GPU's answers from BO.  The outcome of a call
\* is drawn only in a frame that makes the call.
Render(l, FO, BO) ==
    /\ layer[l].owner /= 0
    /\ LET lay == layer[l]
           go == RenderGate(lay) = "go"
       IN
       \E imp \in (IF go /\ ~lay.render_frame_func THEN ResolveOutcomes ELSE {"ok"}) :
       LET calls == go /\ (lay.render_frame_func \/ imp = "ok") IN
       \E frame \in (IF calls THEN FO ELSE {"truthy"}),
          tex \in (IF calls THEN {0} \cup Views ELSE {0}) :
       LET blits == calls /\ (tex /= 0 \/ bridge.view /= 0) IN
       \E out \in (IF ~blits THEN {"ok"}
                   ELSE IF lay.blit_initialized
                        THEN BO \ {"sampler_fail", "shader_fail", "pipeline_fail"}
                        ELSE BO) :
        LET x == render(lay, l, bridge, logged, imp, frame, tex, out) IN
        /\ layer' = [layer EXCEPT ![l] = x.lay]
        /\ bridge' = x.bridge
        /\ logged' = x.logged
        /\ trace' = x.ev
        /\ last' = Call("render", l, x.res.ok, x.res.val)
        /\ UNCHANGED <<py, plugin>>

\* PythonLayer::onKey called by the host.
OnKey(l) ==
    /\ layer[l].owner /= 0
    /\ Len(layer[l].output) < MaxOutput
    /\ \E key \in Keys, action \in KeyActions, imp \in ImportOutcomes :
        LET x == onKey(layer[l], plugin[layer[l].owner], py, key, action, imp) IN
        /\ layer' = [layer EXCEPT ![l] = x.lay]
        /\ py' = x.py
        /\ trace' = x.ev
        /\ last' = Call("on_key", l, x.consumed,
                        IF action = GLFW_PRESS THEN ToString(key) ELSE "")
        /\ UNCHANGED <<bridge, plugin, logged>>

\* PythonLayer::onChar called by the host, with a codepoint of CPS.
OnChar(l, CPS) ==
    /\ layer[l].owner /= 0
    /\ Len(layer[l].input_buffer) < MaxInput
    /\ \E cp \in CPS :
        LET x == onChar(layer[l], cp) IN
        /\ layer' = [layer EXCEPT ![l] = x.lay]
        /\ trace' = <<>>
        /\ last' = Call("on_char", l, x.consumed, ToString(cp))
        /\ UNCHANGED <<py, bridge, plugin, logged>>

\* The host shows or hides the layer (PluginLayer::setVisible).
SetVisible(l) ==
    /\ layer[l].owner /= 0
    /\ \E v \in BOOLEAN :
        /\ layer' = [layer EXCEPT ![l].visible = v]
        /\ trace' = <<>>
        /\ last' = Call("set_visible", l, TRUE, "")
        /\ UNCHANGED <<py, bridge, plugin, logged>>

\* The explicit failure path: the layer is marked failed.
MarkFailed(l) ==
    /\ layer[l].owner /= 0
    /\ layer' = [layer EXCEPT ![l].failed = TRUE]
    /\ trace' = <<>>
    /\ last' = Call("mark_failed", l, TRUE, "")
    /\ UNCHANGED <<py, bridge, plugin, logged>>

\* The whole program: every entry point, on every plugin and layer.
Next ==
    \/ \E p \in Plugins : Create(p)
    \/ \E p \in Plugins : PluginInit(p)
    \/ \E p \in Plugins : PluginDispose(p)
    \/ \E p \in Plugins : Execute(p, Codes)
    \/ \E p \in Plugins : CreateLayer(p, Layers, Payloads)
    \/ \E l \in Layers : LayerInit(l, Payloads)
    \/ \E l \in Layers : LayerDispose(l)
    \/ \E l \in Layers : LayerDestroy(l)
    \/ \E l \in Layers : Render(l, FrameOutcomes, BlitOutcomes)
    \/ \E l \in Layers : OnKey(l)
    \/ \E l \in Layers : OnChar(l, Codepoints)
    \/ \E l \in Layers : SetVisible(l)
    \/ \E l \in Layers : MarkFailed(l)

Spec == Init /\ [][Next]_vars

(***************************************************************************)
(* The program's parts.  The typing state (_input_buffer, _output), the    *)
(* GPU state of a layer and the plugin's flags are changed by disjoint     *)
(* entry points (see the UNCHANGED of each action), so each part is        *)
(* explored by a specification of its own, with the entry points that      *)
(* touch it.                                                               *)
(***************************************************************************)
\* Plugin instances and the interpreter: create, init, dispose, execute.
NextLife ==
    \/ \E p \in Plugins : Create(p)
    \/ \E p \in Plugins : PluginInit(p)
    \/ \E p \in Plugins : PluginDispose(p)
    \/ \E p \in Plugins : Execute(p, Codes)

SpecLife == Init /\ [][NextLife]_vars

\* One layer of one plugin through its frames: render, dispose, visibility.
NextGpu ==
    \/ Create(1)
    \/ PluginInit(1)
    \/ PluginDispose(1)
    \/ CreateLayer(1, {1}, {""})
    \/ LayerInit(1, {""})
    \/ LayerDispose(1)
    \/ LayerDestroy(1)
    \/ Render(1, FrameOutcomes, BlitOutcomes)
    \/ SetVisible(1)
    \/ MarkFailed(1)

SpecGpu == Init /\ [][NextGpu]_vars

\* A plugin torn down with several layers that hold resources.
NextTeardown ==
    \/ Create(1)
    \/ PluginDispose(1)
    \/ CreateLayer(1, Layers, {""})
    \/ \E l \in Layers : Render(l, {"truthy"}, {"ok", "shader_fail"})
    \/ \E l \in Layers : LayerDispose(l)

SpecTeardown == Init /\ [][NextTeardown]_vars

\* Layer creation and init with every kind of payload.
NextInit ==
    \/ Create(1)
    \/ PluginDispose(1)
    \/ CreateLayer(1, {1}, Payloads)
    \/ LayerInit(1, Payloads)
    \/ LayerDestroy(1)
    \/ MarkFailed(1)

SpecInit == Init /\ [][NextInit]_vars

\* The command line of a layer: typing, Enter, Backspace.
NextRepl ==
    \/ Create(1)
    \/ PluginDispose(1)
    \/ CreateLayer(1, {1}, {"", CodePrint})
    \/ OnKey(1)
    \/ OnChar(1, Codepoints)

SpecRepl == Init /\ [][NextRepl]_vars

\* A layer marked failed, under every entry point of the layer.
NextSticky ==
    \/ Create(1)
    \/ CreateLayer(1, {1}, {""})
    \/ LayerInit(1, {"", CodePartial})
    \/ LayerDispose(1)
    \/ Render(1, {"truthy"}, {"ok"})
    \/ OnKey(1)
    \/ OnChar(1, {105, 233})
    \/ MarkFailed(1)

SpecSticky == Init /\ [][NextSticky]_vars

(***************************************************************************)
(* Properties.                                                             *)
(***************************************************************************)
IsDispose(op) == op \in {"layer_dispose", "layer_destroy"}

\* The calls dispose makes into the interpreter.
PyEvents == {"Py_DECREF func", "GetAttr cleanup", "call cleanup", "Py_DECREF module"}
\* The releases of GPU objects dispose makes.
GpuReleases == {"wgpuBindGroupRelease", "wgpuRenderPipelineRelease", "wgpuSamplerRelease"}

Index(t, name) == CHOOSE i \in 1..Len(t) : t[i].ev = name

\* C1 as stated: a render of a failed or hidden layer returns Ok and does
\* nothing.
C1_Original ==
    (last.op = "render" /\ (layer[last.id].failed \/ ~layer[last.id].visible))
        => (last.ok /\ trace = <<>>)

\* C1, amended: a render of a failed or hidden layer changes nothing and makes
\* no call (no handles bound, no import, no entry point, no blit); it returns
\* Ok when the layer is hidden and not failed, and the error "PythonLayer
\* already failed" when the layer is failed, hidden or not.
C1_RenderGate ==
    [][\A l \in Layers :
        (last'.op = "render" /\ last'.id = l
         /\ (layer[l].failed \/ ~layer[l].visible))
        => /\ trace' = <<>>
           /\ layer' = layer /\ bridge' = bridge /\ py' = py
           /\ plugin' = plugin /\ logged' = logged
           /\ last'.ok = ~layer[l].failed
           /\ (layer[l].failed => last'.val = "PythonLayer already failed")]_vars

\* A failed layer that had been rendering is rendered, and the call fails.
C1_Witness ==
    /\ last.op = "render" /\ ~last.ok
    /\ layer[last.id].failed /\ layer[last.id].pygfx_initialized

\* C2: a dispose that directly follows a dispose of the same layer releases
\* nothing (no GPU object, no interpreter reference) and leaves the layer as
\* the first dispose left it; so does the destructor's dispose after one.
C2_DisposeTwice ==
    [][\A l \in Layers :
        (last.op = "layer_dispose" /\ last.id = l /\ IsDispose(last'.op) /\ last'.id = l)
        => /\ \A i \in 1..Len(trace') : trace'[i].ev \notin GpuReleases \cup PyEvents
           /\ (last'.op = "layer_dispose" => layer'[l] = layer[l])
           /\ bridge' = bridge /\ py' = py]_vars

\* A layer was disposed twice in a row.
C2_Witness == last.op = "layer_dispose" /\ last.repeat

\* C3: in every dispose of a layer (by the host, the destructor or the
\* plugin's teardown) the bind group is released before the pipeline, the
\* pipeline before the sampler, and all three before the cleanup hook is
\* looked up or called and before the function and module references go.
C3_ReleaseOrder ==
    (IsDispose(last.op) \/ last.op = "plugin_dispose") =>
        \A l \in Layers :
            /\ Before(trace, "wgpuBindGroupRelease", "wgpuRenderPipelineRelease", l)
            /\ Before(trace, "wgpuRenderPipelineRelease", "wgpuSamplerRelease", l)
            /\ Before(trace, "wgpuBindGroupRelease", "wgpuSamplerRelease", l)
            /\ \A g \in GpuReleases, e \in PyEvents : Before(trace, g, e, l)

\* A dispose released all three blit resources and both references.
C3_Witness ==
    /\ last.op = "layer_dispose"
    /\ \A g \in GpuReleases : HasFor(trace, g, last.id)
    /\ \A e \in PyEvents : HasFor(trace, e, last.id)

\* C4: a dispose of a layer whose plugin does not report initialized makes no
\* call into the interpreter (no cleanup hook, no Py_DECREF) and only nulls
\* the cached handles; the hook and the releases happen only with the plugin
\* initialized.
C4_DeadPluginNoPy ==
    [][\A l \in Layers :
        (IsDispose(last'.op) /\ last'.id = l /\ ~isInitialized(plugin[layer[l].owner]))
        => /\ \A i \in 1..Len(trace') : trace'[i].ev \notin PyEvents
           /\ HasFor(trace', "null _render_frame_func", l)
           /\ HasFor(trace', "null _pygfx_module", l)
           /\ (last'.op = "layer_dispose" =>
                  ~layer'[l].render_frame_func /\ ~layer'[l].pygfx_module)]_vars

\* A layer holding the module and the function was disposed after its plugin.
C4_Witness ==
    /\ last.op = "layer_dispose"
    /\ \E i, j \in 1..Len(trace) :
        /\ trace[i].ev = "null _render_frame_func" /\ trace[i].st = "held"
        /\ trace[j].ev = "null _pygfx_module" /\ trace[j].st = "held"

\* C5: PythonPlugin::dispose never finalizes the interpreter and leaves the
\* runtime as it is; it runs the base class's dispose first, with the flags
\* as they were at the call; if that fails it returns an error with bridge and
\* flags unchanged; otherwise every event of a layer's dispose comes before
\* yetty_wgpu_cleanup, which comes before _py_initialized is cleared, which
\* comes before _initialized is cleared.
C5_TeardownOrder ==
    [][\A p \in Plugins :
        (last'.op = "plugin_dispose" /\ last'.id = p)
        => /\ ~Has(trace', "Py_Finalize") /\ py' = py
           /\ trace'[1] = Ev("Plugin::dispose", 0,
                             IF plugin[p].initialized THEN "initialized" ELSE "")
           /\ IF ~last'.ok
              THEN /\ bridge' = bridge /\ plugin' = plugin
                   /\ ~Has(trace', "yetty_wgpu_cleanup")
                   /\ ~Has(trace', "clear _initialized")
              ELSE /\ bridge' = BridgeClean
                   /\ ~plugin'[p].initialized /\ ~plugin'[p].py_initialized
                   /\ \A i \in 1..Len(trace') :
                        trace'[i].l /= 0 => i < Index(trace', "yetty_wgpu_cleanup")
                   /\ Index(trace', "yetty_wgpu_cleanup")
                        < Index(trace', "clear _initialized")
                   /\ plugin[p].py_initialized =>
                        /\ Index(trace', "yetty_wgpu_cleanup")
                             < Index(trace', "clear _py_initialized")
                        /\ Index(trace', "clear _py_initialized")
                             < Index(trace', "clear _initialized")]_vars

\* An initialized plugin with two layers that hold the module was torn down.
C5_Witness ==
    /\ last.op = "plugin_dispose" /\ last.ok
    /\ \A l \in Layers : HasFor(trace, "Py_DECREF module", l)
    /\ Has(trace, "clear _py_initialized")

\* C6 as stated: the interpreter is booted (Py_InitializeFromConfig) at most
\* once in the process, and it is never finalized.
C6_Original == py.boots <= 1 /\ py.finalizes = 0

\* C7 as stated: every registration of the yetty_wgpu module
\* (PyImport_AppendInittab) happens while no interpreter is running.
C7_Original ==
    \A i \in 1..Len(trace) :
        trace[i].ev = "PyImport_AppendInittab" => trace[i].st = "stopped"

\* C8: an execute call that returns, with text or with an error, leaves
\* sys.stdout and sys.stderr bound to what they were bound to before it; when
\* it runs the code, the code starts with both bound to the StringIO, the
\* restore comes after the run and the read of the StringIO, and the
\* diagnostic of a failed run is printed after the restore, to the restored
\* stderr.
C8_StdoutRestored ==
    [][(last'.op = "execute") =>
        /\ py'.stdout = py.stdout /\ py'.stderr = py.stderr
        /\ py'.stdout /= "sink" /\ py'.stderr /= "sink"
        /\ (trace' /= <<>> =>
              /\ Len(trace') >= 4
              /\ trace'[1] = Ev("redirect", 0, "sink")
              /\ trace'[2] = Ev("PyRun_String", 0, "sink")
              /\ trace'[3].ev = "getvalue"
              /\ trace'[4] = Ev("restore", 0, py.stdout)
              /\ \A i \in 1..Len(trace') :
                    trace'[i].ev = "PyErr_Print" => (i > 4 /\ trace'[i].st = py.stderr))
        /\ (last'.ok = ~Has(trace', "PyErr_Print") \/ trace' = <<>>)]_vars

\* An execute failed after the code wrote text, and one ran code that rebinds
\* sys.stdout itself.
C8_Witness ==
    /\ last.op = "execute"
    /\ \/ (~last.ok /\ last.val = "Python execution error: 1\n" /\ Has(trace, "PyErr_Print"))
       \/ (last.ok /\ \E i \in 1..Len(trace) : trace[i].ev = "getvalue" /\ trace[i].st = "user")

\* The outputs init can leave for a payload that is not run: the interpreter
\* is not initialized, or sys or io cannot be imported.
NotRun ==
    {"Error: Python not initialized", "Error: Failed to import sys module",
     "Error: Failed to import io module"}

IsInit(op) == op \in {"create_layer", "layer_init"}

\* C9: init returns success and createLayer returns a layer for every
\* payload, the layer is initialized, _failed is left as it was (false for a
\* new layer), and a payload that does not open as a file is run as inline
\* code: its outcome is in the output, the script path is untouched.
C9_InitNeverFails ==
    [][\A l \in Layers :
        (IsInit(last'.op) /\ last'.id = l)
        => /\ last'.ok
           /\ layer'[l].owner /= 0 /\ layer'[l].initialized
           /\ layer'[l].failed = layer[l].failed
           /\ (layer'[l].payload = ScriptGone =>
                 /\ layer'[l].script_path = layer[l].script_path
                 /\ layer'[l].output \in NotRun \cup {"Error: Python execution error: "}
                 /\ (layer'[l].output \notin NotRun => Has(trace', "PyRun_String")))]_vars

\* A layer was created from a path that does not open, and the path was run.
C9_Witness ==
    /\ last.op = "create_layer" /\ last.ok
    /\ layer[last.id].payload = ScriptGone
    /\ layer[last.id].output = "Error: Python execution error: "
    /\ ~layer[last.id].failed

\* The text an inline payload writes to the captured stream.
Written(payload) ==
    CASE payload = CodePrint -> "42\n"
      [] payload = CodePartial -> "1\n"
      [] OTHER -> ""

Prefix(str, pre) == Len(str) >= Len(pre) /\ SubSeq(str, 1, Len(pre)) = pre

\* C10: after init with a payload that is not empty, the output is: for inline
\* code that ran without raising, exactly the captured text; for inline code
\* that raised, "Error: Python execution error: " and the text captured up to
\* the exception; for inline code that was not run, "Error: " and the reason;
\* for a file that ran without raising, "Script executed: " and the path;
\* for a file otherwise, a text starting with "Error: ".  The old output is
\* replaced.  An empty payload leaves the output alone.
C10_InitOutput ==
    [][\A l \in Layers :
        (IsInit(last'.op) /\ last'.id = l)
        => LET payload == layer'[l].payload
               ran == Has(trace', "PyRun_String")
               raised == Has(trace', "PyErr_Print")
               out == layer'[l].output
           IN  IF payload = "" THEN out = layer[l].output
               ELSE IF Readable(payload) THEN
                    IF ran /\ ~raised THEN out = "Script executed: " \o payload
                    ELSE /\ Prefix(out, "Error: Failed to ")
                         /\ ~ran => out = "Error: Failed to open Python file: " \o payload
                                    \/ Prefix(out, "Error: Failed to execute Python file")
               ELSE IF ran /\ ~raised THEN out = Written(payload)
               ELSE IF raised THEN out = "Error: Python execution error: " \o Written(payload)
               ELSE out \in NotRun]_vars

\* A layer first initialized from a script was initialized again with inline
\* code printing 42, and its output is exactly that text.
C10_Witness ==
    /\ last.op = "layer_init"
    /\ layer[last.id].script_path = ScriptOk
    /\ layer[last.id].payload = CodePrint
    /\ layer[last.id].output = "42\n"

\* The transcript tails onKey can append for a buffer that is not run.
NotRunTail == {m \o "\n" : m \in NotRun}

\* C11: a press of Enter with a buffer B that is not empty is consumed, calls
\* into the interpreter for B at most once (exactly once when the plugin's
\* interpreter is initialized and sys and io import), appends to the output
\* ">>> B\n" followed by the captured text when B ran without raising, and by
\* "Error: ", the message and a newline otherwise, keeps the old output as a
\* prefix, and clears the buffer.
C11_EnterRunsBuffer ==
    [][\A l \in Layers :
        (/\ last'.op = "on_key" /\ last'.id = l
         /\ last'.val = ToString(GLFW_KEY_ENTER)
         /\ layer[l].input_buffer /= "")
        => LET B == layer[l].input_buffer
               ran == Has(trace', "PyRun_String")
               raised == Has(trace', "PyErr_Print")
               head == layer[l].output \o ">>> " \o B \o "\n"
           IN  /\ last'.ok
               /\ layer'[l].input_buffer = ""
               /\ Count(trace', "PyRun_String", 0) <= 1
               /\ ran => plugin[layer[l].owner].py_initialized
               /\ (ran /\ ~raised) <=> (trace' /= <<>> /\ Program(B) = <<>>)
               /\ IF ran /\ ~raised THEN layer'[l].output = head \o Written(B)
                  ELSE IF raised THEN
                       layer'[l].output =
                           head \o "Error: Python execution error: " \o Written(B) \o "\n"
                  ELSE \E t \in NotRunTail : layer'[l].output = head \o t]_vars

\* Enter ran the buffer "1" of a layer whose output already held "42\n",
\* and Enter ran a buffer that raised.
C11_Witness ==
    /\ last.op = "on_key" /\ last.ok /\ last.val = ToString(GLFW_KEY_ENTER)
    /\ layer[last.id].input_buffer = ""
    /\ \/ layer[last.id].output = "42\n>>> 1\n"
       \/ (Has(trace, "PyErr_Print")
           /\ layer[last.id].output = ">>> i\nError: Python execution error: \n")

\* Printable ASCII: space to tilde.
Printable(cp) == cp >= 32 /\ cp < 127

\* C12 as stated: onChar with a codepoint that is not printable ASCII leaves
\* the input buffer unchanged.
C12_Original ==
    [][\A l \in Layers, cp \in Codepoints :
        (last'.op = "on_char" /\ last'.id = l /\ last'.val = ToString(cp)
         /\ ~Printable(cp))
        => layer'[l].input_buffer = layer[l].input_buffer]_vars

\* C13: once a layer's _failed flag is true, no init, render, dispose,
\* onKey or onChar call on that layer makes it false, and every render of the
\* layer makes no call, changes nothing and returns the error.
C13_FailedSticky ==
    [][\A l \in Layers :
        (layer[l].failed /\ layer[l].owner /= 0 /\ layer'[l].owner /= 0)
        => /\ layer'[l].failed
           /\ (last'.op = "render" /\ last'.id = l)
              => (trace' = <<>> /\ layer'[l] = layer[l] /\ bridge' = bridge
                  /\ ~last'.ok)]_vars

\* A layer that had cached the script's entry point was marked failed, was
\* disposed and typed into, and was then rendered.
C13_Witness ==
    /\ last.op = "render" /\ ~last.ok
    /\ layer[last.id].failed
    /\ ~layer[last.id].initialized
    /\ layer[last.id].input_buffer /= ""
    /\ bridge.view /= 0

\* The last call was a render of layer l whose import of the script module,
\* or lookup of render_frame, failed.
ResolveFailed(l) ==
    /\ last.op = "render" /\ last.id = l
    /\ Has(trace, "PyImport_ImportModule")
    /\ ~layer[l].render_frame_func

\* C14 as stated: after a render whose import or lookup failed, the next
\* render of the layer (no dispose or init in between) does not invoke the
\* entry point and does not blit.
C14_Original ==
    [][\A l \in Layers :
        (ResolveFailed(l) /\ last'.op = "render" /\ last'.id = l)
        => /\ ~Has(trace', "call render_frame")
           /\ ~Has(trace', "wgpuRenderPassEncoderDraw")]_vars

\* The calls of a frame that could not resolve the entry point.
ResolveCalls ==
    {"yetty_wgpu_set_handles", "PyImport_ImportModule", "GetAttr render_frame"}

\* C14, amended: every render of a visible, not failed layer without a cached
\* entry point returns success and tries the import again; when the import
\* or the lookup fails, that frame does not invoke the entry point, creates
\* and releases no blit resource and submits no draw; when they succeed, the
\* same frame invokes the entry point.
C14_RetryEachFrame ==
    [][\A l \in Layers :
        (/\ last'.op = "render" /\ last'.id = l
         /\ RenderGate(layer[l]) = "go" /\ ~layer[l].render_frame_func)
        => /\ last'.ok
           /\ HasFor(trace', "PyImport_ImportModule", l)
           /\ IF layer'[l].render_frame_func
              THEN HasFor(trace', "call render_frame", l)
              ELSE /\ \A i \in 1..Len(trace') : trace'[i].ev \in ResolveCalls
                   /\ layer'[l].blit_initialized = layer[l].blit_initialized
                   /\ layer'[l].blit_sampler = layer[l].blit_sampler
                   /\ layer'[l].blit_pipeline = layer[l].blit_pipeline
                   /\ layer'[l].blit_bind_group = layer[l].blit_bind_group]_vars

\* A render found the script module and no render_frame in it, on a layer
\* whose handles an earlier frame had bound.
C14_Witness ==
    /\ ResolveFailed(last.id) /\ last.ok
    /\ layer[last.id].pygfx_module
    /\ ~Has(trace, "yetty_wgpu_set_handles")

\* C15: every render of a visible, not failed layer that holds the cached
\* entry point invokes it exactly once, returns success, leaves _failed false
\* and keeps the cached entry point, whatever the frame did (the entry point
\* raised or returned a falsy value, the blit failed); so the render after a
\* failed frame invokes the entry point again.
C15_BadFrameTolerated ==
    [][\A l \in Layers :
        (/\ last'.op = "render" /\ last'.id = l
         /\ RenderGate(layer[l]) = "go"
         /\ (layer[l].render_frame_func \/ layer'[l].render_frame_func))
        => /\ last'.ok
           /\ ~layer'[l].failed
           /\ layer'[l].render_frame_func /\ layer'[l].pygfx_initialized
           /\ layer'[l].visible
           /\ Count(trace', "call render_frame", l) = 1]_vars

\* A frame in which the entry point, cached by an earlier frame, raised and
\* no draw was submitted; the layer is visible, not failed, and still holds
\* the entry point.
C15_Witness ==
    /\ last.op = "render" /\ last.ok
    /\ Has(trace, "call render_frame") /\ Has(trace, "PyErr_Print")
    /\ ~Has(trace, "PyImport_ImportModule")
    /\ ~Has(trace, "wgpuQueueSubmit")
    /\ layer[last.id].render_frame_func
    /\ layer[last.id].visible /\ ~layer[last.id].failed

\* The layer holds a blit resource.
HoldsBlit(lay) == lay.blit_sampler \/ lay.blit_pipeline \/ lay.blit_bind_group /= 0

\* The entry point returned a truthy value in the call the trace is of.
FrameTruthy(t, l) ==
    \E i \in 1..Len(t) :
        t[i].ev = "call render_frame" /\ t[i].l = l /\ t[i].st = "truthy"

\* C16 as stated, for the first frame of a new layer: when the entry point
\* has not returned a truthy value in that frame (it has then never done so
\* for the layer), the layer holds no blit resource after it.
C16_Original ==
    [][\A l \in Layers :
        (/\ last.op = "create_layer" /\ last.id = l
         /\ last'.op = "render" /\ last'.id = l
         /\ ~FrameTruthy(trace', l))
        => ~HoldsBlit(layer'[l])]_vars

\* The GPU calls of blitRenderTexture and createBlitPipeline.
BlitCalls ==
    {"wgpuDeviceCreateSampler", "wgpuDeviceCreateShaderModule",
     "wgpuDeviceCreateRenderPipeline", "wgpuBindGroupRelease",
     "wgpuDeviceCreateBindGroup", "wgpuDeviceCreateCommandEncoder",
     "getCurrentTextureView", "wgpuCommandEncoderBeginRenderPass",
     "wgpuRenderPassEncoderDraw", "wgpuQueueSubmit"}

\* C17: in a frame in which the bridge's render texture view is null when the
\* blit is reached, the frame makes no GPU call of the blit, leaves the
\* layer's sampler, pipeline and bind group as they were, and does not count
\* as a rendered frame; a draw is recorded only in a frame with a view; and a
\* frame never loses a pipeline that was built before it, whichever step of
\* the blit fails.
C17_NoBlitWithoutTexture ==
    [][\A l \in Layers :
        (last'.op = "render" /\ last'.id = l)
        => /\ bridge'.view = 0
              => /\ \A i \in 1..Len(trace') : trace'[i].ev \notin BlitCalls
                 /\ layer'[l].blit_initialized = layer[l].blit_initialized
                 /\ layer'[l].blit_sampler = layer[l].blit_sampler
                 /\ layer'[l].blit_pipeline = layer[l].blit_pipeline
                 /\ layer'[l].blit_bind_group = layer[l].blit_bind_group
                 /\ logged' = logged
           /\ Has(trace', "wgpuRenderPassEncoderDraw") => bridge'.view /= 0
           /\ layer[l].blit_initialized
              => (layer'[l].blit_initialized /\ layer'[l].blit_pipeline
                  /\ layer'[l].blit_sampler)]_vars

\* A frame whose script call returned a truthy value reached the blit with no
\* render texture view.
C17_Witness ==
    /\ last.op = "render" /\ last.ok
    /\ FrameTruthy(trace, last.id)
    /\ bridge.view = 0
    /\ ~logged /\ ~HoldsBlit(layer[last.id])

\* The calls render makes into the interpreter.
RenderPyCalls == {"PyImport_ImportModule", "GetAttr render_frame", "call render_frame"}

\* C18 as stated: every call render makes into the interpreter (the import
\* of the module, the lookup and the invocation of the entry point) is made
\* while the owning plugin's interpreter flag is true.
C18_Original ==
    [][\A l \in Layers :
        (/\ last'.op = "render" /\ last'.id = l
         /\ \E i \in 1..Len(trace') : trace'[i].ev \in RenderPyCalls)
        => plugin[layer[l].owner].py_initialized]_vars

\* The errors of initPython: the registration of yetty_wgpu, and the steps
\* that bring the interpreter up (its configuration, Py_InitializeFromConfig,
\* the __main__ module and its dictionary).
InitErrors ==
    {"Failed to register yetty_wgpu module", "Failed to set Python program name",
     "Failed to initialize Python interpreter",
     "Failed to get Python __main__ module", "Failed to get Python __main__ dict"}

\* C19: PythonPlugin::init returns an error exactly when the registration or
\* a step of the interpreter's boot fails, and then leaves the plugin not
\* initialized; otherwise it returns success with the plugin and its
\* interpreter flag initialized, whether or not the packages could be
\* provisioned.  PythonPlugin::create gives a plugin exactly when init
\* succeeds and passes init's error on otherwise.
C19_ProvisioningSoft ==
    [][\A p \in Plugins :
        /\ (last'.op = "plugin_init" /\ last'.id = p)
           => /\ last'.ok <=> (last'.val \notin InitErrors)
              /\ last'.ok <=> plugin'[p].initialized
              /\ last'.ok <=> plugin'[p].py_initialized
              /\ ~last'.ok => (~plugin[p].initialized
                               /\ Has(trace', "PyImport_AppendInittab"))
              /\ Has(trace', "PyRun_SimpleString sys.path") => last'.ok
        /\ (last'.op = "create" /\ last'.id = p)
           => /\ last'.ok <=> plugin'[p].exists
              /\ last'.ok => (plugin'[p].initialized /\ plugin'[p].py_initialized)
              /\ ~last'.ok
                 => /\ plugin'[p] = NoPlugin
                    /\ \E e \in InitErrors :
                          last'.val = "Failed to init PythonPlugin: " \o e
              /\ Has(trace', "PyRun_SimpleString sys.path") => last'.ok]_vars

\* init succeeded on a disposed plugin although the packages could not be
\* provisioned.
C19_Witness ==
    /\ last.op = "plugin_init" /\ last.ok
    /\ Has(trace, "warn packages") /\ Has(trace, "Py_InitializeFromConfig")
    /\ plugin[last.id].initialized

\* C20: _wgpu_handles_set is false for a new layer and after every dispose of
\* the layer, and no call but render and dispose changes it; a render of a
\* visible, not failed layer calls yetty_wgpu_set_handles exactly once when
\* the flag is false, with null instance and adapter and the context's device
\* and queue, and not at all when the flag is true, and leaves the flag true;
\* a render of a failed or hidden layer does not call it.  So the handles are
\* bound by the first such render after creation or dispose, and by no later
\* render until the next dispose.
C20_HandlesOncePerLifecycle ==
    [][\A l \in Layers :
        /\ (last'.op = "render" /\ last'.id = l)
           => IF RenderGate(layer[l]) = "go"
              THEN /\ Count(trace', "yetty_wgpu_set_handles", l)
                        = (IF layer[l].wgpu_handles_set THEN 0 ELSE 1)
                   /\ layer'[l].wgpu_handles_set
                   /\ ~layer[l].wgpu_handles_set
                      => /\ bridge'.instance = "null" /\ bridge'.adapter = "null"
                         /\ bridge'.device = CtxDevice /\ bridge'.queue = CtxQueue
              ELSE /\ ~Has(trace', "yetty_wgpu_set_handles")
                   /\ layer'[l].wgpu_handles_set = layer[l].wgpu_handles_set
        /\ (IsDispose(last'.op) /\ last'.id = l) => ~layer'[l].wgpu_handles_set
        /\ (last'.op = "create_layer" /\ last'.id = l) => ~layer'[l].wgpu_handles_set
        /\ (last'.op = "plugin_dispose")
           => (layer'[l].wgpu_handles_set => layer[l].wgpu_handles_set)
        /\ (last'.op \notin {"render", "layer_dispose", "layer_destroy",
                             "plugin_dispose", "create_layer"} \/ last'.id /= l)
           => (last'.op = "plugin_dispose"
               \/ layer'[l].wgpu_handles_set = layer[l].wgpu_handles_set)]_vars

\* A frame invoked the entry point on a layer whose handles an earlier frame
\* had bound, and did not bind them again.
C20_Witness ==
    /\ last.op = "render" /\ last.ok
    /\ Has(trace, "call render_frame")
    /\ ~Has(trace, "yetty_wgpu_set_handles")
    /\ layer[last.id].wgpu_handles_set
    /\ bridge.device = CtxDevice /\ bridge.queue = CtxQueue
    /\ bridge.instance = "null" /\ bridge.adapter = "null"

\* C21: a frame that creates a bind group creates one, after releasing the
\* one the layer held (one release if it held one, none otherwise), and the
\* layer then holds the group built against the view of that frame, or none
\* if the creation failed; a frame that draws holds the group it built in
\* that frame; a frame that creates none releases none and keeps what the
\* layer held; dispose releases the group the layer holds, once, and leaves
\* the layer with none.
C21_OneBindGroup ==
    [][\A l \in Layers :
        /\ (last'.op = "render" /\ last'.id = l)
           => IF HasFor(trace', "wgpuDeviceCreateBindGroup", l)
              THEN /\ Count(trace', "wgpuDeviceCreateBindGroup", l) = 1
                   /\ Count(trace', "wgpuBindGroupRelease", l)
                        = (IF layer[l].blit_bind_group /= 0 THEN 1 ELSE 0)
                   /\ Before(trace', "wgpuBindGroupRelease",
                             "wgpuDeviceCreateBindGroup", l)
                   /\ bridge'.view /= 0
                   /\ layer'[l].blit_bind_group \in {0, bridge'.view}
                   /\ HasFor(trace', "wgpuRenderPassEncoderDraw", l)
                      => /\ layer'[l].blit_bind_group = bridge'.view
                         /\ Before(trace', "wgpuDeviceCreateBindGroup",
                                   "wgpuRenderPassEncoderDraw", l)
              ELSE /\ ~HasFor(trace', "wgpuBindGroupRelease", l)
                   /\ ~HasFor(trace', "wgpuRenderPassEncoderDraw", l)
                   /\ layer'[l].blit_bind_group = layer[l].blit_bind_group
        /\ (last'.op = "layer_dispose" /\ last'.id = l)
           => /\ layer'[l].blit_bind_group = 0
              /\ Count(trace', "wgpuBindGroupRelease", l)
                   = (IF layer[l].blit_bind_group /= 0 THEN 1 ELSE 0)]_vars

\* A frame released the bind group of an earlier frame, built a new one
\* against the view of this frame, and drew with it.
C21_Witness ==
    /\ last.op = "render"
    /\ Has(trace, "wgpuBindGroupRelease")
    /\ Has(trace, "wgpuDeviceCreateBindGroup")
    /\ Has(trace, "wgpuRenderPassEncoderDraw")
    /\ layer[last.id].blit_bind_group = bridge.view
    /\ bridge.view = 2

\* C22 as stated, for the handles a frame overwrites: a render never stores
\* a new sampler while the layer holds one, a new pipeline while it holds
\* one, or a new module reference while it holds one (the old one would be
\* left unreleased, since dispose releases only what the members hold).
C22_Original ==
    [][\A l \in Layers :
        (last'.op = "render" /\ last'.id = l)
        => /\ HasFor(trace', "wgpuDeviceCreateSampler", l) => ~layer[l].blit_sampler
           /\ HasFor(trace', "wgpuDeviceCreateRenderPipeline", l)
              => ~layer[l].blit_pipeline
           /\ HasFor(trace', "PyImport_ImportModule", l) => ~layer[l].pygfx_module]_vars

\* C23 as stated: a render that follows a dispose of the layer, with no init
\* in between, binds no handles, imports nothing, invokes nothing, creates no
\* blit resource and leaves the layer as dispose left it.
C23_Original ==
    [][\A l \in Layers :
        (/\ last.op = "layer_dispose" /\ last.id = l
         /\ last'.op = "render" /\ last'.id = l)
        => /\ trace' = <<>>
           /\ layer'[l] = layer[l]
           /\ bridge' = bridge]_vars

\* C24: an onKey call that is not a press, a press of Enter or Backspace
\* with an empty buffer, and a press of another key are not consumed, leave
\* the layer and the interpreter as they were and run nothing; a press of
\* Backspace with a buffer that is not empty is consumed, removes the last
\* character of the buffer and nothing else, leaves the output and the
\* interpreter as they were and runs nothing.
C24_IrrelevantKeys ==
    [][\A l \in Layers :
        (last'.op = "on_key" /\ last'.id = l)
        => LET buf == layer[l].input_buffer
               enter == last'.val = ToString(GLFW_KEY_ENTER) /\ buf /= ""
               back == last'.val = ToString(GLFW_KEY_BACKSPACE) /\ buf /= ""
           IN  /\ (~enter /\ ~back)
                  => /\ ~last'.ok
                     /\ layer'[l] = layer[l]
                     /\ py' = py /\ trace' = <<>>
               /\ back
                  => /\ last'.ok
                     /\ Len(layer'[l].input_buffer) = Len(buf) - 1
                     /\ Prefix(buf, layer'[l].input_buffer)
                     /\ layer'[l] = [layer[l] EXCEPT
                                        !.input_buffer = layer'[l].input_buffer]
                     /\ py' = py /\ trace' = <<>>]_vars

\* Backspace was pressed on a buffer of two characters.
C24_Witness ==
    /\ last.op = "on_key" /\ last.ok
    /\ last.val = ToString(GLFW_KEY_BACKSPACE)
    /\ Len(layer[last.id].input_buffer) = 1
    /\ trace = <<>>

====
